---- MODULE Spec2Model ----
(***************************************************************************)
(* The OEIS benchmark pipeline (src/src/process.py, src/src/utils.py):     *)
(* load the dataset, keep the desired columns, truncate the sequences,     *)
(* drop the short ones, split each sequence into its first terms and its   *)
(* next term, drop duplicate beginnings, derive is_easy and write the      *)
(* result.  A dataset is its column names and its rows in order; a row is  *)
(* a function from column names to values.  Every row also carries "rid",  *)
(* its position in the loaded split: it is no column, it only names the    *)
(* row.  hist records what the load did, the files before the run, the     *)
(* stages that were applied and the dataset each of them left; out is what *)
(* was handed to the writer.                                               *)
(***************************************************************************)
EXTENDS Integers, Sequences, FiniteSets, TLC

\* ------------------------------------------------------------------ bounds
\* Rows of a dataset.
MaxRows == 2
\* Rows of a dataset handed to drop_duplicate_sequence_beginnings on its own.
MaxDedupRows == 3
\* Elements of a sequence handed to truncate_sequence on its own; a key
\* handed to drop_duplicate_sequence_beginnings has one element less.
MaxLen == 3
\* max_el handed to truncate_sequence on its own.
MaxSeqLenArg == 3
\* Entries of a keywords list handed to add_is_easy_column on its own.
MaxKeywords == 2

Terms == {0, 1}
Keywords == {"easy", "Easy", "nonn"}

SeqsUpTo(n) == UNION {[1..k -> Terms] : k \in 0..n}
KeywordsUpTo(n) == UNION {[1..k -> Keywords] : k \in 0..n}

\* What a whole run is fed: every sequence of at most two terms, a keywords
\* list with "easy" behind another keyword and one with only the capitalised
\* "Easy"; max_seq_len and min_seq_len around those lengths.
RunSequences == SeqsUpTo(2)
RunKeywords == {<<"nonn", "easy">>, <<"Easy", "nonn">>}
RunMaxSeqLens == {1, 2}
RunMinSeqLens == {0, 1, 2}

\* ------------------------------------------------------------------ schema
required_columns == <<"sequence_id", "sequence_name", "sequence", "keywords">>
SourceColumns == {"sequence_id", "sequence_name", "sequence", "keywords", "offset"}

VARIABLES pc, cfg, ds, raised, fs, out, hist
vars == <<pc, cfg, ds, raised, fs, out, hist>>

\* ------------------------------------------------------------------ python
Range(s) == {s[i] : i \in 1..Len(s)}
Min(a, b) == IF a <= b THEN a ELSE b
Max(a, b) == IF a >= b THEN a ELSE b

\* seq[:stop]
PySliceTo(seq, stop) ==
    IF stop >= 0 THEN SubSeq(seq, 1, Min(stop, Len(seq)))
    ELSE SubSeq(seq, 1, Max(Len(seq) + stop, 0))

\* seq[-1], an IndexError on the empty list
PyLastRaises(seq) == Len(seq) = 0
PyLast(seq) == seq[Len(seq)]

\* ------------------------------------------------------------------ datasets
\* A Dataset: its column_names and its rows, in order.
Dataset(columns, rows) == [column_names |-> columns, rows |-> rows]
NoDataset == Dataset({}, <<>>)

\* The batch a batched map or filter hands to its function: column -> list.
Batch(d) == [c \in d.column_names |-> [i \in 1..Len(d.rows) |-> d.rows[i][c]]]

\* Dataset.map(batched=True): the returned columns replace or extend the rows'.
DatasetMap(d, result) ==
    Dataset(d.column_names \cup DOMAIN result,
            [i \in 1..Len(d.rows) |->
                [c \in DOMAIN d.rows[i] \cup DOMAIN result |->
                    IF c \in DOMAIN result THEN result[c][i] ELSE d.rows[i][c]]])

RECURSIVE FilterRows(_, _)
FilterRows(rows, mask) ==
    IF rows = <<>> THEN <<>>
    ELSE LET rest == FilterRows(Tail(rows), Tail(mask))
         IN IF Head(mask) THEN <<Head(rows)>> \o rest ELSE rest

\* Dataset.filter: the rows whose mask entry is True, in order.
DatasetFilter(d, mask) == Dataset(d.column_names, FilterRows(d.rows, mask))

ProjectRows(rows, columns) ==
    [i \in 1..Len(rows) |->
        [c \in (DOMAIN rows[i]) \cap (columns \cup {"rid"}) |-> rows[i][c]]]

\* select_columns that keeps every column.
select_columns_all(d, columns) == d

select_columns(d, columns) == Dataset(columns, ProjectRows(d.rows, columns))

remove_columns(d, gone) ==
    Dataset(d.column_names \ gone, ProjectRows(d.rows, d.column_names \ gone))

\* ------------------------------------------------------------------ utils.py
\* truncate_sequence that cuts nothing.
truncate_sequence_none(examples, max_el) ==
    [sequence |-> examples.sequence]

\* truncate_sequence that keeps one element less.
truncate_sequence_short(examples, max_el) ==
    [sequence |->
        [i \in 1..Len(examples.sequence) |->
            LET seq == examples.sequence[i]
            IN IF Len(seq) >= max_el THEN PySliceTo(seq, max_el - 1) ELSE seq]]

truncate_sequence(examples, max_el) ==
    [sequence |->
        [i \in 1..Len(examples.sequence) |->
            LET seq == examples.sequence[i]
            IN IF Len(seq) > max_el THEN PySliceTo(seq, max_el) ELSE seq]]

\* filter_by_min_length with > for >=.
filter_by_min_length_strict(dataset, n_el) ==
    [i \in 1..Len(dataset.sequence) |-> Len(dataset.sequence[i]) > n_el]

filter_by_min_length(dataset, n_el) ==
    [i \in 1..Len(dataset.sequence) |-> Len(dataset.sequence[i]) >= n_el]

extract_next_term_raises(examples) ==
    \E i \in 1..Len(examples.sequence) : PyLastRaises(examples.sequence[i])

\* extract_next_term that takes seq[0] for seq[-1].
extract_next_term_first(examples) ==
    [sequence_first_terms |->
        [i \in 1..Len(examples.sequence) |-> PySliceTo(examples.sequence[i], -1)],
     sequence_next_term |->
        [i \in 1..Len(examples.sequence) |-> examples.sequence[i][1]]]

extract_next_term(examples) ==
    [sequence_first_terms |->
        [i \in 1..Len(examples.sequence) |-> PySliceTo(examples.sequence[i], -1)],
     sequence_next_term |->
        [i \in 1..Len(examples.sequence) |-> PyLast(examples.sequence[i])]]

\* filter_unique_sequence that compares the terms as a set.
filter_unique_sequence_unordered(example, seen_sequences) ==
    LET current == Range(example.sequence_first_terms)
    IN IF \A s \in seen_sequences : Range(s) # current
       THEN <<TRUE, seen_sequences \cup {example.sequence_first_terms}>>
       ELSE <<FALSE, seen_sequences>>

\* One call of the closure: <<keep, seen_sequences after the call>>.
filter_unique_sequence(example, seen_sequences) ==
    LET current_sequence_tuple == example.sequence_first_terms
    IN IF current_sequence_tuple \notin seen_sequences
       THEN <<TRUE, seen_sequences \cup {current_sequence_tuple}>>
       ELSE <<FALSE, seen_sequences>>

RECURSIVE UniqueMask(_, _)
\* Dataset.filter calls the closure once per row, in order.
UniqueMask(rows, seen_sequences) ==
    IF rows = <<>> THEN <<>>
    ELSE LET r == filter_unique_sequence(Head(rows), seen_sequences)
         IN <<r[1]>> \o UniqueMask(Tail(rows), r[2])

drop_duplicate_sequence_beginnings(dataset) ==
    IF "sequence_first_terms" \notin dataset.column_names THEN dataset
    ELSE DatasetFilter(dataset, UniqueMask(dataset.rows, {}))

\* _add_easy_flag that also takes "Easy".
add_easy_flag_anycase(example) ==
    LET keywords == example.keywords
    IN [is_easy |-> IF {"easy", "Easy"} \cap Range(keywords) # {} THEN 1 ELSE 0]

add_easy_flag(example) ==
    LET keywords == example.keywords
    IN [is_easy |-> IF "easy" \in Range(keywords) THEN 1 ELSE 0]

add_is_easy_column(dataset) ==
    IF "keywords" \notin dataset.column_names THEN dataset
    ELSE Dataset(dataset.column_names \cup {"is_easy"},
            [i \in 1..Len(dataset.rows) |->
                [c \in DOMAIN dataset.rows[i] \cup {"is_easy"} |->
                    IF c = "is_easy" THEN add_easy_flag(dataset.rows[i]).is_easy
                    ELSE dataset.rows[i][c]]])

\* ------------------------------------------------------------------ inputs
\* A row: the values of the columns the dataset has.
Row(i, columns, seq, kws) ==
    [c \in columns \cup {"rid"} |->
        CASE c = "rid" -> i
          [] c = "sequence_id" -> i
          [] c = "sequence_name" -> "name"
          [] c = "offset" -> 0
          [] c = "sequence" -> seq
          [] c = "sequence_first_terms" -> seq
          [] c = "keywords" -> kws]

\* The values a column of k rows may hold: one of vals per row if the
\* dataset has the column, nothing to choose otherwise.
ColumnValues(k, present, vals) == [1..k -> IF present THEN vals ELSE {<<>>}]

\* The dataset of k rows with these columns, sequences (or beginnings) ss
\* and keywords lists ks.
MakeDataset(columns, k, ss, ks) ==
    Dataset(columns, [i \in 1..k |-> Row(i, columns, ss[i], ks[i])])

\* What load_dataset does: it raises, or returns a DatasetDict (with or
\* without a "train" split), a Dataset, or something else.
LoadOutcomes == {"raises", "dict", "dict_no_train", "dataset", "other"}
LoadFailures == {"raises", "dict_no_train", "other"}

NoHistory(files) ==
    [load |-> "none", fs0 |-> files, ran |-> {},
     selected |-> NoDataset, truncated |-> NoDataset, filtered |-> NoDataset,
     split |-> NoDataset, deduped |-> NoDataset, flagged |-> NoDataset]

NotWritten == [handed |-> FALSE, dataset |-> NoDataset]

\* ------------------------------------------------------------------ process.py
\* process_oeis_dataset is called with its arguments; ./data/ and the output
\* file exist from an earlier run, or not.
Init ==
    /\ pc = "load"
    /\ cfg \in [max_seq_len : RunMaxSeqLens, min_seq_len : RunMinSeqLens]
    /\ ds = NoDataset
    /\ raised = FALSE
    /\ fs \in {[dir |-> FALSE, file |-> "absent"], [dir |-> TRUE, file |-> "old"]}
    /\ out = NotWritten
    /\ hist = NoHistory(fs)

\* The load stage without its two returns.
LoadDataset_goes_on ==
    /\ pc = "load"
    /\ \E outcome \in LoadOutcomes :
        IF outcome \in LoadFailures
        THEN /\ pc' = "select"
             /\ hist' = [hist EXCEPT !.load = outcome]
             /\ UNCHANGED ds
        ELSE \E columns \in SUBSET SourceColumns, k \in 0..MaxRows :
             \E ss \in ColumnValues(k, "sequence" \in columns, RunSequences),
                ks \in ColumnValues(k, "keywords" \in columns, RunKeywords) :
                /\ ds' = MakeDataset(columns, k, ss, ks)
                /\ pc' = "select"
                /\ hist' = [hist EXCEPT !.load = "loaded"]
    /\ UNCHANGED <<cfg, raised, fs, out>>

\* 1. Load the dataset
LoadDataset ==
    /\ pc = "load"
    /\ \E outcome \in LoadOutcomes :
        IF outcome \in LoadFailures
        THEN \* logged, then return
             /\ pc' = "done"
             /\ hist' = [hist EXCEPT !.load = outcome]
             /\ UNCHANGED ds
        ELSE \E columns \in SUBSET SourceColumns, k \in 0..MaxRows :
             \E ss \in ColumnValues(k, "sequence" \in columns, RunSequences),
                ks \in ColumnValues(k, "keywords" \in columns, RunKeywords) :
                /\ ds' = MakeDataset(columns, k, ss, ks)
                /\ pc' = "select"
                /\ hist' = [hist EXCEPT !.load = "loaded"]
    /\ UNCHANGED <<cfg, raised, fs, out>>

\* 2. Filter columns
FilterColumns ==
    /\ pc = "select"
    /\ LET columns_to_select == Range(required_columns) \cap ds.column_names
       IN ds' = select_columns(ds, columns_to_select)
    /\ hist' = [hist EXCEPT !.selected = ds', !.ran = @ \cup {"select"}]
    /\ pc' = "truncate"
    /\ UNCHANGED <<cfg, raised, fs, out>>

\* 3. Truncate sequences
TruncateSequences ==
    /\ pc = "truncate"
    /\ IF "sequence" \in ds.column_names
       THEN /\ ds' = DatasetMap(ds, truncate_sequence(Batch(ds), cfg.max_seq_len))
            /\ hist' = [hist EXCEPT !.truncated = ds', !.ran = @ \cup {"truncate"}]
       ELSE UNCHANGED <<ds, hist>>
    /\ pc' = "filter"
    /\ UNCHANGED <<cfg, raised, fs, out>>

\* 4. Remove sequences with less than min_seq_len elements
RemoveShortSequences ==
    /\ pc = "filter"
    /\ IF "sequence" \in ds.column_names
       THEN /\ ds' = DatasetFilter(ds, filter_by_min_length(Batch(ds), cfg.min_seq_len))
            /\ hist' = [hist EXCEPT !.filtered = ds', !.ran = @ \cup {"filter"}]
       ELSE UNCHANGED <<ds, hist>>
    /\ pc' = "split"
    /\ UNCHANGED <<cfg, raised, fs, out>>

\* 5. Add sequence beginning and next term columns
AddNextTerm ==
    /\ pc = "split"
    /\ IF "sequence" \in ds.column_names
       THEN IF extract_next_term_raises(Batch(ds))
            THEN \* the IndexError of seq[-1] leaves process_oeis_dataset
                 /\ raised' = TRUE
                 /\ pc' = "done"
                 /\ UNCHANGED <<ds, hist>>
            ELSE /\ ds' = remove_columns(DatasetMap(ds, extract_next_term(Batch(ds))),
                                         {"sequence"})
                 /\ hist' = [hist EXCEPT !.split = ds', !.ran = @ \cup {"split"}]
                 /\ pc' = "dedup"
                 /\ UNCHANGED raised
       ELSE /\ pc' = "dedup"
            /\ UNCHANGED <<ds, hist, raised>>
    /\ UNCHANGED <<cfg, fs, out>>

\* 6. Drop rows with duplicate sequence beginnings
DropDuplicates ==
    /\ pc = "dedup"
    /\ IF "sequence_first_terms" \in ds.column_names
       THEN /\ ds' = drop_duplicate_sequence_beginnings(ds)
            /\ hist' = [hist EXCEPT !.deduped = ds', !.ran = @ \cup {"dedup"}]
       ELSE UNCHANGED <<ds, hist>>
    /\ pc' = "easy"
    /\ UNCHANGED <<cfg, raised, fs, out>>

\* 7. Add 'is_easy' column
AddIsEasy ==
    /\ pc = "easy"
    /\ IF "keywords" \in ds.column_names
       THEN /\ ds' = remove_columns(add_is_easy_column(ds), {"keywords"})
            /\ hist' = [hist EXCEPT !.flagged = ds', !.ran = @ \cup {"easy"}]
       ELSE UNCHANGED <<ds, hist>>
    /\ pc' = "save"
    /\ UNCHANGED <<cfg, raised, fs, out>>

\* 8. Save the resulting dataset: mkdir, then to_parquet; either may fail,
\* and a failed write leaves the file as it was or half written.
SaveDataset ==
    /\ pc = "save"
    /\ \E io \in {"ok", "mkdir_fails", "write_fails"} :
        CASE io = "mkdir_fails" ->
                /\ ~fs.dir
                /\ UNCHANGED <<fs, out>>
          [] io = "write_fails" ->
                /\ \E left \in {fs.file, "partial"} : fs' = [dir |-> TRUE, file |-> left]
                /\ out' = [handed |-> TRUE, dataset |-> ds]
          [] io = "ok" ->
                /\ fs' = [dir |-> TRUE, file |-> "new"]
                /\ out' = [handed |-> TRUE, dataset |-> ds]
    /\ hist' = [hist EXCEPT !.ran = @ \cup {"save"}]
    /\ pc' = "done"
    /\ UNCHANGED <<cfg, ds, raised>>

Next ==
    \/ LoadDataset
    \/ FilterColumns
    \/ TruncateSequences
    \/ RemoveShortSequences
    \/ AddNextTerm
    \/ DropDuplicates
    \/ AddIsEasy
    \/ SaveDataset

\* A whole run of process_oeis_dataset.
Spec == Init /\ [][Next]_vars

\* ------------------------------------------------------------------ the functions on their own
Idle(step, d, arguments) ==
    /\ pc = step
    /\ cfg = arguments
    /\ ds = d
    /\ raised = FALSE
    /\ fs = [dir |-> FALSE, file |-> "absent"]
    /\ out = NotWritten

\* truncate_sequence on every dataset with a sequence column.
InitTruncate ==
    \E k \in 0..MaxRows, max_el \in 1..MaxSeqLenArg :
    \E ss \in ColumnValues(k, TRUE, SeqsUpTo(MaxLen)) :
      LET d == MakeDataset({"sequence"}, k, ss, ss)
      IN
        /\ Idle("truncate", d, [max_seq_len |-> max_el, min_seq_len |-> 0])
        /\ hist = [NoHistory(fs) EXCEPT !.load = "loaded", !.selected = d]

SpecTruncate == InitTruncate /\ [][TruncateSequences]_vars

\* drop_duplicate_sequence_beginnings on every dataset with a
\* sequence_first_terms column.
InitDedup ==
    \E k \in 0..MaxDedupRows :
    \E ss \in ColumnValues(k, TRUE, SeqsUpTo(MaxLen - 1)) :
      LET d == MakeDataset({"sequence_first_terms"}, k, ss, ss)
      IN
        /\ Idle("dedup", d, [max_seq_len |-> MaxLen, min_seq_len |-> 0])
        /\ hist = [NoHistory(fs) EXCEPT !.load = "loaded", !.split = d]

SpecDedup == InitDedup /\ [][DropDuplicates]_vars

\* add_is_easy_column on every dataset with a keywords column.
InitEasy ==
    \E k \in 0..MaxRows :
    \E ks \in ColumnValues(k, TRUE, KeywordsUpTo(MaxKeywords)) :
      LET d == MakeDataset({"keywords"}, k, ks, ks)
      IN
        /\ Idle("easy", d, [max_seq_len |-> MaxLen, min_seq_len |-> 0])
        /\ hist = [NoHistory(fs) EXCEPT !.load = "loaded", !.selected = d]

SpecEasy == InitEasy /\ [][AddIsEasy]_vars

\* ------------------------------------------------------------------ claims
Retained(rows, row) == \E j \in 1..Len(rows) : rows[j] = row
InInputOrder(rows) ==
    \A j1, j2 \in 1..Len(rows) : j1 < j2 => rows[j1].rid < rows[j2].rid
RowOf(rows, rid) == CHOOSE r \in Range(rows) : r.rid = rid

\* C1: drop_duplicate_sequence_beginnings returns exactly the rows whose
\* sequence_first_terms occurs in no earlier row, in their input order: no
\* two retained rows share a key, every dropped row has an earlier retained
\* row with the same key, and of the rows sharing a key the first is kept.
C1_DedupKeepsFirstOccurrences ==
    "dedup" \in hist.ran =>
        LET inp == hist.split.rows
            res == hist.deduped.rows
        IN /\ hist.deduped.column_names = hist.split.column_names
           /\ \A j \in 1..Len(res) : Retained(inp, res[j])
           /\ InInputOrder(res)
           /\ \A i \in 1..Len(inp) :
                Retained(res, inp[i]) <=>
                    ~ \E i0 \in 1..(i - 1) :
                        inp[i0].sequence_first_terms = inp[i].sequence_first_terms
           /\ \A j1, j2 \in 1..Len(res) :
                j1 # j2 => res[j1].sequence_first_terms # res[j2].sequence_first_terms
           /\ \A i \in 1..Len(inp) :
                ~Retained(res, inp[i]) =>
                    \E j \in 1..Len(res) :
                        /\ res[j].rid < inp[i].rid
                        /\ res[j].sequence_first_terms = inp[i].sequence_first_terms

\* A row was dropped, and two rows were kept whose keys hold the same terms
\* in a different order.
C1_Witness ==
    /\ "dedup" \in hist.ran
    /\ Len(hist.deduped.rows) < Len(hist.split.rows)
    /\ \E r1, r2 \in Range(hist.deduped.rows) :
        /\ r1.sequence_first_terms # r2.sequence_first_terms
        /\ Range(r1.sequence_first_terms) = Range(r2.sequence_first_terms)
        /\ Len(r1.sequence_first_terms) = Len(r2.sequence_first_terms)

\* C2: no failure leaves process_oeis_dataset: for every input and every
\* configuration the function returns to its caller without an exception.
C2_ReturnsWithoutException == ~raised

\* C3: a run whose load fails stops there: no later stage runs, ./data/ is
\* not created and no output file is written, so an old file stays as it was.
C3_LoadFailureStops ==
    hist.load \in LoadFailures =>
        /\ pc = "done"
        /\ hist.ran = {}
        /\ ds = NoDataset
        /\ ~out.handed
        /\ fs = hist.fs0

C3_Witness ==
    /\ hist.load \in LoadFailures
    /\ pc = "done"
    /\ fs.file = "old"

\* C4: the minimum-length filter keeps a row iff its truncated sequence has
\* at least min_seq_len elements, and keeps the rows in their order.
C4_MinLengthFilter ==
    "filter" \in hist.ran =>
        LET inp == hist.truncated.rows
            res == hist.filtered.rows
        IN /\ \A j \in 1..Len(res) : Retained(inp, res[j])
           /\ InInputOrder(res)
           /\ \A j \in 1..Len(res) : Len(res[j].sequence) >= cfg.min_seq_len
           /\ \A i \in 1..Len(inp) :
                ~Retained(res, inp[i]) => Len(inp[i].sequence) < cfg.min_seq_len

\* A row of exactly min_seq_len elements was kept and a shorter one dropped.
C4_Witness ==
    /\ "filter" \in hist.ran
    /\ \E r \in Range(hist.filtered.rows) :
        Len(r.sequence) = cfg.min_seq_len /\ cfg.min_seq_len >= 1
    /\ Len(hist.filtered.rows) < Len(hist.truncated.rows)

\* C5: for every row that reaches the split with a non-empty sequence,
\* sequence_first_terms followed by sequence_next_term is the truncated
\* sequence: the first terms are one shorter, the next term is its last.
C5_SplitRebuildsSequence ==
    "split" \in hist.ran =>
        /\ Len(hist.split.rows) = Len(hist.filtered.rows)
        /\ \A i \in 1..Len(hist.split.rows) :
            LET row == hist.split.rows[i]
                sequence == RowOf(hist.truncated.rows, row.rid).sequence
            IN /\ row.rid = hist.filtered.rows[i].rid
               /\ Append(row.sequence_first_terms, row.sequence_next_term) = sequence
               /\ Len(row.sequence_first_terms) + 1 = Len(sequence)
               /\ row.sequence_next_term = sequence[Len(sequence)]

\* A sequence of two different terms was split.
C5_Witness ==
    /\ "split" \in hist.ran
    /\ \E row \in Range(hist.split.rows) :
        /\ Len(row.sequence_first_terms) = 1
        /\ row.sequence_first_terms[1] # row.sequence_next_term

\* C6: truncate_sequence gives the first max_seq_len elements of a longer
\* sequence and leaves any other as it is; truncating again changes nothing.
C6_Truncation ==
    "truncate" \in hist.ran =>
        LET inp == hist.selected.rows
            res == hist.truncated.rows
            max_el == cfg.max_seq_len
        IN /\ Len(res) = Len(inp)
           /\ \A i \in 1..Len(inp) :
                /\ Len(inp[i].sequence) > max_el =>
                        res[i].sequence = [k \in 1..max_el |-> inp[i].sequence[k]]
                /\ Len(inp[i].sequence) <= max_el =>
                        res[i].sequence = inp[i].sequence
           /\ DatasetMap(hist.truncated, truncate_sequence(Batch(hist.truncated), max_el))
                = hist.truncated

\* A sequence was cut to two or more elements.
C6_Witness ==
    /\ "truncate" \in hist.ran
    /\ cfg.max_seq_len >= 2
    /\ \E i \in 1..Len(hist.selected.rows) :
        /\ Len(hist.selected.rows[i].sequence) > cfg.max_seq_len
        /\ Len(hist.truncated.rows[i].sequence) = cfg.max_seq_len

\* C7: is_easy is 1 iff the string "easy", in this very spelling, is one of
\* the row's original keywords, and 0 otherwise.
C7_IsEasy ==
    "easy" \in hist.ran =>
        /\ Len(hist.flagged.rows) = Len(hist.selected.rows)
        /\ \A row \in Range(hist.flagged.rows) :
            LET keywords == RowOf(hist.selected.rows, row.rid).keywords
            IN /\ row.is_easy \in {0, 1}
               /\ row.is_easy = 1 <=> \E n \in 1..Len(keywords) : keywords[n] = "easy"

\* One row got 1 for an "easy" that is not its first keyword, another got 0
\* although it holds "Easy".
C7_Witness ==
    /\ "easy" \in hist.ran
    /\ \E r1, r2 \in Range(hist.flagged.rows) :
        /\ r1.is_easy = 1
        /\ RowOf(hist.selected.rows, r1.rid).keywords[1] # "easy"
        /\ r2.is_easy = 0
        /\ "Easy" \in Range(RowOf(hist.selected.rows, r2.rid).keywords)

\* C8: when a desired column is absent from the source the run is not
\* aborted and reaches the write stage: without sequence, truncation, filter,
\* split and deduplication change nothing; without keywords no is_easy is
\* added; every stage whose own column is there is applied.
C8_MissingColumnDegrades ==
    LET present == hist.selected.column_names
        SequenceStages == {"truncate", "filter", "split", "dedup"}
    IN (pc = "done" /\ hist.load = "loaded" /\ present # Range(required_columns)) =>
        /\ ~raised
        /\ "save" \in hist.ran
        /\ "sequence" \notin present =>
            /\ hist.ran \cap SequenceStages = {}
            /\ ds.column_names \cap {"sequence_first_terms", "sequence_next_term"} = {}
            /\ Len(ds.rows) = Len(hist.selected.rows)
        /\ "sequence" \in present => SequenceStages \subseteq hist.ran
        /\ "keywords" \notin present =>
            "easy" \notin hist.ran /\ "is_easy" \notin ds.column_names
        /\ "keywords" \in present =>
            "easy" \in hist.ran /\ "is_easy" \in ds.column_names

FinalColumns ==
    {"sequence_id", "sequence_name", "sequence_first_terms", "sequence_next_term", "is_easy"}
FinalSchema(d) ==
    /\ d.column_names \subseteq FinalColumns
    /\ \A r \in Range(d.rows) : DOMAIN r \ {"rid"} = d.column_names

\* C9: the dataset handed to the writer has neither a sequence nor a
\* keywords column, and no column outside sequence_id, sequence_name,
\* sequence_first_terms, sequence_next_term and is_easy.
C9_FinalSchema ==
    /\ pc = "save" => FinalSchema(ds)
    /\ out.handed => FinalSchema(out.dataset)

\* A source with every desired column and one more was written.
C9_Witness ==
    /\ out.handed
    /\ out.dataset.column_names = FinalColumns
    /\ out.dataset.rows # <<>>

\* C10, as stated: with max_seq_len >= 1 and min_seq_len >= 1 every row
\* written has min_seq_len - 1 <= len(sequence_first_terms) <= max_seq_len - 1,
\* and with min_seq_len > max_seq_len no row is written, whatever the input.
C10_LengthWindow ==
    (out.handed /\ cfg.max_seq_len >= 1 /\ cfg.min_seq_len >= 1) =>
        /\ \A r \in Range(out.dataset.rows) :
            "sequence_first_terms" \in DOMAIN r =>
                /\ cfg.min_seq_len - 1 <= Len(r.sequence_first_terms)
                /\ Len(r.sequence_first_terms) <= cfg.max_seq_len - 1
        /\ cfg.min_seq_len > cfg.max_seq_len => out.dataset.rows = <<>>

\* C10, amended: the same for a source that has a sequence column.
C10_LengthWindowWithSequence ==
    (/\ out.handed
     /\ cfg.max_seq_len >= 1
     /\ cfg.min_seq_len >= 1
     /\ "sequence" \in hist.selected.column_names) =>
        /\ \A r \in Range(out.dataset.rows) :
            /\ "sequence_first_terms" \in DOMAIN r
            /\ cfg.min_seq_len - 1 <= Len(r.sequence_first_terms)
            /\ Len(r.sequence_first_terms) <= cfg.max_seq_len - 1
        /\ cfg.min_seq_len > cfg.max_seq_len => out.dataset.rows = <<>>

\* A row was written whose sequence had been longer than max_seq_len.
C10_Witness ==
    /\ out.handed
    /\ cfg.min_seq_len >= 1
    /\ "sequence" \in hist.selected.column_names
    /\ \E r \in Range(out.dataset.rows) :
        Len(RowOf(hist.selected.rows, r.rid).sequence) > cfg.max_seq_len

====
